---------------------------- MODULE Spec2Model ----------------------------
(***************************************************************************)
(* passport-envato: the Envato OAuth 2.0 strategy.                         *)
(*                                                                         *)
(* Two parts of src/lib/passport-envato/strategy.js are modelled:          *)
(*   - the Strategy constructor (lines 50-66): how it resolves the         *)
(*     options it is given and what it writes into the caller's objects;   *)
(*   - Strategy.prototype.userProfile (lines 83-132): the chain of three   *)
(*     GETs, the try/catch blocks around the callbacks and the calls of    *)
(*     done.                                                               *)
(* JavaScript runs one callback at a time: `running` is the invocation     *)
(* whose code is on the stack, and no other invocation moves until the     *)
(* stack has unwound.  A transport may call its callback before get()      *)
(* returns (then the caller's try block is still on the stack) or later    *)
(* from the event loop (then it is not).                                   *)
(***************************************************************************)
EXTENDS Naturals, Sequences, FiniteSets, TLC

VARIABLES
    options,      \* the caller's options object (or Undefined when none is passed)
    headers,      \* the header maps that exist, by reference (1 is the caller's)
    strategies,   \* the strategies constructed so far, in order
    inv,          \* per userProfile invocation: its closure and its history
    heap,         \* the profile objects allocated so far, by reference
    running       \* the invocation whose code is on the JS stack, 0 when none

vars == <<options, headers, strategies, inv, heap, running>>

-----------------------------------------------------------------------------
(* Bounds *)

\* userProfile invocations that may overlap
NumInvocations == 2
\* how many times the done callback may throw within one invocation
MaxDoneThrows == 1
\* strategies constructed from the caller's options object
MaxStrategies == 2

-----------------------------------------------------------------------------
(* JavaScript values *)

Undefined == [t |-> "undefined"]
Null == [t |-> "null"]
Str(s) == [t |-> "string", v |-> s]
Obj(f) == [t |-> "object", f |-> f]
Ref(n) == [t |-> "ref", id |-> n]

\* ToBoolean: undefined, null and the empty string are falsy
Truthy(v) == v \notin {Undefined, Null, Str("")}

\* a || b
Or(a, b) == IF Truthy(a) THEN a ELSE b

\* o[k] of a property map: a missing property reads as undefined
Get(o, k) == IF k \in DOMAIN o THEN o[k] ELSE Undefined

\* o[k] = v on a property map
Set(o, k, v) == [x \in (DOMAIN o) \cup {k} |-> IF x = k THEN v ELSE o[x]]

\* v.k where v is a parsed JSON value: reading a property of undefined or
\* null throws a TypeError; of a string it reads undefined
CanRead(v) == v \notin {Undefined, Null}
Prop(v, k) == IF v.t = "object" THEN Get(v.f, k) ELSE Undefined


-----------------------------------------------------------------------------
(* The Strategy constructor *)

DefaultAuthorizationURL == Str("https://api.envato.com/authorization")
DefaultTokenURL == Str("https://api.envato.com/token")
DefaultUserAgent == Str("passport-envato")
DefaultUserProfileURL ==
    Str("https://api.envato.com/v1/market/private/user/account.json")
DefaultUserProfileUsername ==
    Str("https://api.envato.com/v1/market/private/user/username.json")
DefaultUserProfileEmail ==
    Str("https://api.envato.com/v1/market/private/user/email.json")

EmptyObject == [x \in {} |-> Undefined]

\* if (!options.customHeaders['User-Agent']) { ... = options.userAgent || 'passport-envato' }
UserAgentForOverwrites(o, h) ==
    Set(h, "User-Agent", Or(Get(o, "userAgent"), DefaultUserAgent))
UserAgentFor(o, h) ==
    IF ~Truthy(Get(h, "User-Agent"))
    THEN Set(h, "User-Agent", Or(Get(o, "userAgent"), DefaultUserAgent))
    ELSE h

\* new Strategy(opts, verify), with hdrs the header maps that exist. The
\* result is the new strategy (this), the object the caller passed as it is
\* afterwards, and the header maps afterwards. The assignments of lines
\* 52-58 write into the object the caller passed; only when nothing was
\* passed is the object written to a fresh one.
NewStrategy(opts, hdrs) ==
    LET o0 == IF Truthy(opts) THEN opts.f ELSE EmptyObject
        o1 == Set(o0, "authorizationURL",
                  Or(Get(o0, "authorizationURL"), DefaultAuthorizationURL))
        o2 == Set(o1, "tokenURL", Or(Get(o1, "tokenURL"), DefaultTokenURL))
        fresh == ~Truthy(Get(o2, "customHeaders"))
        h0 == IF fresh THEN Append(hdrs, EmptyObject) ELSE hdrs
        o3 == Set(o2, "customHeaders",
                  Or(Get(o2, "customHeaders"), Ref(Len(hdrs) + 1)))
        r  == o3["customHeaders"].id
        h1 == [h0 EXCEPT ![r] = UserAgentFor(o3, h0[r])]
        this == [ name |-> "envato",
                  \* what OAuth2Strategy.call(this, options, verify) is handed
                  authorizationURL |-> o3["authorizationURL"],
                  tokenURL |-> o3["tokenURL"],
                  customHeaders |-> o3["customHeaders"],
                  _userProfileURL |->
                      Or(Get(o3, "userProfileURL"), DefaultUserProfileURL),
                  _userProfileUsername |->
                      Or(Get(o3, "userProfileUsername"), DefaultUserProfileUsername),
                  _userProfileEmail |->
                      Or(Get(o3, "userProfileEmail"), DefaultUserProfileEmail) ]
    IN  [ this |-> this,
          options |-> IF Truthy(opts) THEN Obj(o3) ELSE opts,
          headers |-> h1 ]

\* The option values a caller may supply: nothing, the empty string, a value
UrlOptions ==
    {"authorizationURL", "tokenURL", "userProfileURL", "userProfileUsername",
     "userProfileEmail"}
SuppliedUrl(k) == {Str(""), Str("https://example.test/" \o k)}
SuppliedUserAgent == {Str(""), Str("myapp.com"), Str("other.example")}
SuppliedHeader == {Str(""), Str("preset-agent")}

\* the objects with any subset of the keys of vals, each key k with a value
\* of vals[k]
ObjectsOver(vals) ==
    UNION { { f \in [d -> UNION {vals[k] : k \in d}] :
                  \A k \in d : f[k] \in vals[k] } : d \in SUBSET DOMAIN vals }

CallerHeaderMaps == ObjectsOver([k \in {"User-Agent"} |-> SuppliedHeader])

OptionValues(k) ==
    IF k = "userAgent" THEN SuppliedUserAgent
    ELSE IF k = "customHeaders" THEN {Ref(1)}
    ELSE SuppliedUrl(k)

CallerOptions ==
    {Undefined} \cup
    {Obj(f) : f \in ObjectsOver(
         [k \in UrlOptions \cup {"userAgent", "customHeaders"} |-> OptionValues(k)])}

InitCtor ==
    /\ options \in CallerOptions
    /\ headers \in
         IF Truthy(options) /\ "customHeaders" \in DOMAIN options.f
         THEN {<<h>> : h \in CallerHeaderMaps}
         ELSE {<< >>}
    /\ strategies = << >>
    /\ inv = << >>
    /\ heap = << >>
    /\ running = 0

\* new Strategy(options, verify) on the caller's options object. `given`
\* keeps what the constructor was handed and `left` what it left behind, for
\* the properties below.
Construct ==
    /\ Len(strategies) < MaxStrategies
    /\ LET n == NewStrategy(options, headers)
       IN  /\ strategies' = Append(strategies,
                  [ this |-> n.this,
                    given |-> [options |-> options, headers |-> headers],
                    left |-> [options |-> n.options, headers |-> n.headers] ])
           /\ options' = n.options
           /\ headers' = n.headers
    /\ UNCHANGED <<inv, heap, running>>

\* the caller changes options.userAgent between two constructions
SetUserAgent ==
    /\ Truthy(options)
    /\ strategies # << >>
    /\ Len(strategies) < MaxStrategies
    /\ \E v \in SuppliedUserAgent :
          /\ Get(options.f, "userAgent") # v
          /\ options' = Obj(Set(options.f, "userAgent", v))
    /\ UNCHANGED <<headers, strategies, inv, heap, running>>

NextCtor == Construct \/ SetUserAgent

SpecCtor == InitCtor /\ [][NextCtor]_vars

-----------------------------------------------------------------------------
(* Errors *)

Error(name, message, cause) ==
    [t |-> "error", name |-> name, message |-> message, cause |-> cause]

\* new InternalOAuthError(message, err)
InternalOAuthError(message, err) == Error("InternalOAuthError", message, err)

\* what the transport hands the callback as err
TransportErrors == { Error("TransportError", "ECONNRESET", Undefined) }

\* what done throws, when it throws
DoneError == Error("Error", "thrown by done", Undefined)

\* the message of the InternalOAuthError of each step
StageLabelCopied(k) == "failed to fetch user profile"
StageLabel(k) ==
    CASE k = 1 -> "failed to fetch user profile"
      [] k = 2 -> "failed to fetch username"
      [] k = 3 -> "failed to fetch email"

\* the endpoint of each step
StageURL(this, k) ==
    CASE k = 1 -> this._userProfileURL
      [] k = 2 -> this._userProfileUsername
      [] k = 3 -> this._userProfileEmail

-----------------------------------------------------------------------------
(* Response bodies and JSON.parse *)

AccountFields ==
    {"image", "firstname", "surname", "available_earnings", "total_deposits",
     "balance", "country"}

BodyAccountA ==
    "{\"account\":{\"image\":\"i\",\"firstname\":\"F\",\"surname\":\"S\"," \o
    "\"available_earnings\":\"1\",\"total_deposits\":\"2\",\"balance\":\"3\"," \o
    "\"country\":\"C\"}}"
BodyUsernameU == "{\"username\":\"u\"}"
BodyEmailE == "{\"email\":\"e@x.com\"}"
BodyEmptyObject == "{}"
BodyNull == "null"
BodyHtml == "<html>Bad Gateway</html>"

\* JSON.parse on the bodies above: the value, or the SyntaxError it throws
JSONParse(body) ==
    CASE body = BodyAccountA ->
           [ok |-> TRUE, value |-> Obj([account |-> Obj(
               [image |-> Str("i"), firstname |-> Str("F"), surname |-> Str("S"),
                available_earnings |-> Str("1"), total_deposits |-> Str("2"),
                balance |-> Str("3"), country |-> Str("C")])])]
      [] body = BodyUsernameU ->
           [ok |-> TRUE, value |-> Obj([username |-> Str("u")])]
      [] body = BodyEmailE ->
           [ok |-> TRUE, value |-> Obj([email |-> Str("e@x.com")])]
      [] body = BodyEmptyObject -> [ok |-> TRUE, value |-> Obj(EmptyObject)]
      [] body = BodyNull -> [ok |-> TRUE, value |-> Null]
      [] OTHER ->
           [ok |-> FALSE,
            error |-> Error("SyntaxError", "Unexpected token in JSON: " \o body,
                            Undefined)]

\* the bodies the endpoint of step k may answer with
Bodies(k) ==
    CASE k = 1 -> {BodyAccountA, BodyEmptyObject, BodyHtml}
      [] k = 2 -> {BodyUsernameU, BodyNull, BodyHtml}
      [] k = 3 -> {BodyEmailE, BodyEmptyObject, BodyHtml}

\* callback(err, body, res): what the transport may answer the GET of step k
Responses(k) ==
    {[err |-> e, body |-> Undefined] : e \in TransportErrors} \cup
    {[err |-> Null, body |-> Str(b)] : b \in Bodies(k)}

TypeErrorOf(k) == Error("TypeError", "Cannot read property of " \o k, Undefined)

-----------------------------------------------------------------------------
(* Strategy.prototype.userProfile *)

Invocations == 1..NumInvocations
Tokens == {"tokenA", "tokenB"}

\* userProfile only passes the token on, and token names are
\* interchangeable: the second invocation is made with the token of the first
\* or with another one, every other invocation with the token of the first
TokensFor(i) == IF i = 2 THEN Tokens ELSE {"tokenA"}

\* An invocation before it is made. pc is where it stands: "idle" (not
\* called), "inflight" (inside _oauth2.get, which has not returned),
\* "pending" (get has returned, the callback is still to come), "unwinding"
\* (an exception is propagating; only within a step), "returned" (nothing
\* left to run). stack
\* holds the try blocks of userProfile that are on the JS stack, outermost
\* first, by the step whose callback they belong to. mayThrow tells whether
\* the done callback the caller passes is one that may throw.
Idle(mayThrow) ==
    [ pc |-> "idle", mayThrow |-> mayThrow,
      token |-> Undefined, step |-> 0, stack |-> << >>,
      exc |-> Undefined, profile |-> Undefined,
      responses |-> << >>,   \* what the transport answered, in order
      issued |-> << >>,      \* the GETs issued, in order
      calls |-> << >>,       \* the calls of done, in order
      escaped |-> << >>,     \* the exceptions that left userProfile's code
      throws |-> 0 ]

\* _oauth2.get(url, accessToken, callback) for step k
OAuth2Get(s, this, k) ==
    [s EXCEPT !.pc = "inflight", !.step = k,
              !.issued = Append(@, [step |-> k, url |-> StageURL(this, k),
                                    token |-> s.token])]

\* done(err, profile): the call is recorded; done returns, and with it every
\* frame below it, or it throws
Done(s, err, profile, throws) ==
    LET s1 == [s EXCEPT !.calls =
                   Append(@, [err |-> err, profile |-> profile, threw |-> throws])]
    IN  IF throws
        THEN [s1 EXCEPT !.pc = "unwinding", !.exc = DoneError, !.throws = @ + 1]
        ELSE [s1 EXCEPT !.pc = "returned", !.stack = << >>, !.exc = Undefined]

\* an exception e is thrown at the current point
Throw(s, e) == [s EXCEPT !.pc = "unwinding", !.exc = e]

\* try { : the try block of step k's callback is entered
Try(s, k) == [s EXCEPT !.stack = Append(@, k)]

\* var profile = { provider: 'envato' }: a new object
AllocShared(hp, obj) ==
    IF hp = << >>
    THEN [heap |-> <<obj>>, ref |-> Ref(1)]
    ELSE [heap |-> [hp EXCEPT ![1] = obj], ref |-> Ref(1)]
Alloc(hp, obj) == [heap |-> Append(hp, obj), ref |-> Ref(Len(hp) + 1)]

\* profile.image = json.account.image; ... profile._json = json (lines 92-101)
SetAccount(profile, json, body) ==
    LET account == Prop(json, "account")
        p1 == Set(profile, "image", Prop(account, "image"))
        p2 == Set(p1, "firstname", Prop(account, "firstname"))
        p3 == Set(p2, "surname", Prop(account, "surname"))
        p4 == Set(p3, "available_earnings", Prop(account, "available_earnings"))
        p5 == Set(p4, "total_deposits", Prop(account, "total_deposits"))
        p6 == Set(p5, "balance", Prop(account, "balance"))
        p7 == Set(p6, "country", Prop(account, "country"))
        p8 == Set(p7, "_raw", body)
    IN  Set(p8, "_json", json)

\* profile.username = json.username (line 107)
SetUsernameOverwritesRaw(profile, json, body) ==
    Set(Set(Set(profile, "username", Prop(json, "username")), "_raw", body),
        "_json", json)
SetUsername(profile, json, body) == Set(profile, "username", Prop(json, "username"))

\* profile.email = json.email (line 114)
SetEmailSkipped(profile, json, body) == profile
SetEmail(profile, json, body) == Set(profile, "email", Prop(json, "email"))

\* if (err) { return done(new InternalOAuthError(<label of step k>, err)); }
OnTransportErrorRetries(s, this, hp, k, err, throws) ==
    [inv |-> OAuth2Get(s, this, k), heap |-> hp]
OnTransportError(s, this, hp, k, err, throws) ==
    [inv |-> Done(s, InternalOAuthError(StageLabel(k), err), Undefined, throws),
     heap |-> hp]

\* The callback of the account GET (lines 85-131)
OnAccount(s, this, hp, r, throws) ==
    IF Truthy(r.err)
    THEN OnTransportError(s, this, hp, 1, r.err, throws)
    ELSE
      LET s1 == Try(s, 1)
          parsed == JSONParse(r.body.v)
      IN  IF ~parsed.ok
          THEN [inv |-> Throw(s1, parsed.error), heap |-> hp]
          ELSE
            LET json == parsed.value
                a == Alloc(hp, [provider |-> Str("envato")])
                s2 == [s1 EXCEPT !.profile = a.ref]
            IN  IF ~CanRead(json) \/ ~CanRead(Prop(json, "account"))
                THEN [inv |-> Throw(s2, TypeErrorOf("account")), heap |-> a.heap]
                ELSE [inv |-> OAuth2Get(s2, this, 2),
                      heap |-> [a.heap EXCEPT ![a.ref.id] =
                                   SetAccount(@, json, r.body)]]

\* The callback of the username GET (lines 103-126)
OnUsername(s, this, hp, r, throws) ==
    IF Truthy(r.err)
    THEN OnTransportError(s, this, hp, 2, r.err, throws)
    ELSE
      LET s1 == Try(s, 2)
          parsed == JSONParse(r.body.v)
      IN  IF ~parsed.ok
          THEN [inv |-> Throw(s1, parsed.error), heap |-> hp]
          ELSE IF ~CanRead(parsed.value)
          THEN [inv |-> Throw(s1, TypeErrorOf("username")), heap |-> hp]
          ELSE [inv |-> OAuth2Get(s1, this, 3),
                heap |-> [hp EXCEPT ![s.profile.id] =
                             SetUsername(@, parsed.value, r.body)]]

\* The callback of the email GET (lines 109-121)
OnEmail(s, this, hp, r, throws) ==
    IF Truthy(r.err)
    THEN OnTransportError(s, this, hp, 3, r.err, throws)
    ELSE
      LET s1 == Try(s, 3)
          parsed == JSONParse(r.body.v)
      IN  IF ~parsed.ok
          THEN [inv |-> Throw(s1, parsed.error), heap |-> hp]
          ELSE IF ~CanRead(parsed.value)
          THEN [inv |-> Throw(s1, TypeErrorOf("email")), heap |-> hp]
          ELSE [inv |-> Done(s1, Null, s.profile, throws),
                heap |-> [hp EXCEPT ![s.profile.id] =
                             SetEmail(@, parsed.value, r.body)]]

\* the transport calls the callback of the GET in flight with r
Callback(s, this, hp, r, throws) ==
    LET s1 == [s EXCEPT !.responses = Append(@, r)]
    IN  CASE s.step = 1 -> OnAccount(s1, this, hp, r, throws)
          [] s.step = 2 -> OnUsername(s1, this, hp, r, throws)
          [] s.step = 3 -> OnEmail(s1, this, hp, r, throws)

\* } catch(e) { done(e); } of the innermost try block on the stack
CatchBlockSwallows(s, throws) ==
    [s EXCEPT !.pc = "returned", !.stack = << >>, !.exc = Undefined]
CatchBlockPartial(s, throws) ==
    Done([s EXCEPT !.stack = SubSeq(@, 1, Len(@) - 1)], Null, s.profile, throws)
CatchBlock(s, throws) ==
    Done([s EXCEPT !.stack = SubSeq(@, 1, Len(@) - 1)], s.exc, Undefined, throws)

\* no try block of userProfile is left on the stack: the exception leaves
\* userProfile's code, to the transport or to the caller
Escaped(s) ==
    [s EXCEPT !.pc = "returned", !.exc = Undefined, !.escaped = Append(@, s.exc)]

\* The exception that is propagating, if any, reaches the catch blocks on
\* the stack from the innermost on; done throws on its next n calls.
RECURSIVE Unwind(_, _)
Unwind(s, n) ==
    IF s.pc # "unwinding" THEN s
    ELSE IF s.stack = << >> THEN Escaped(s)
    ELSE Unwind(CatchBlock(s, n > 0), IF n > 0 THEN n - 1 ELSE 0)

\* on how many of its next calls done may throw
ThrowsAhead(s) == 0..(IF s.mayThrow THEN MaxDoneThrows - s.throws ELSE 0)

\* the strategy userProfile is called on
This == strategies[1].this

\* the options the strategy of the invocations is constructed from
FetchOptions == { Obj([userProfileEmail |-> Str("https://example.test/email")]) }

\* One strategy has been constructed; no invocation has been made
InitWith(mayThrow) ==
    /\ \E o \in FetchOptions :
          LET n == NewStrategy(o, << >>)
          IN  /\ options = n.options
              /\ headers = n.headers
              /\ strategies =
                    << [ this |-> n.this,
                         given |-> [options |-> o, headers |-> << >>],
                         left |-> [options |-> n.options, headers |-> n.headers] ] >>
    /\ inv = [i \in Invocations |-> Idle(mayThrow)]
    /\ heap = << >>
    /\ running = 0

\* the callers' done callbacks may throw
Init == InitWith(TRUE)

\* strategy.userProfile(accessToken, done): the account GET is issued.
\* Invocations are numbered in the order they are made.
UserProfile(i) ==
    /\ running = 0
    /\ inv[i].pc = "idle"
    /\ IF i = 1 THEN TRUE ELSE inv[i - 1].pc # "idle"
    /\ \E t \in TokensFor(i) :
          inv' = [inv EXCEPT ![i] = OAuth2Get([@ EXCEPT !.token = t], This, 1)]
    /\ running' = i
    /\ UNCHANGED <<options, headers, strategies, heap>>

\* _oauth2.get returns without having called the callback: the frames of
\* userProfile on the stack all return
GetReturns(i) ==
    /\ running = i
    /\ inv[i].pc = "inflight"
    /\ inv' = [inv EXCEPT ![i].pc = "pending", ![i].stack = << >>]
    /\ running' = 0
    /\ UNCHANGED <<options, headers, strategies, heap>>

\* The state after invocation i's callback has run with r, done throwing on
\* its next n calls: the callback runs until it has called _oauth2.get or
\* until it and the catch blocks below it are through.
AfterCallback(i, r, n) ==
    LET c == Callback(inv[i], This, heap, r, n > 0)
        s == Unwind(c.inv, IF n > 0 THEN n - 1 ELSE 0)
    IN  /\ inv' = [inv EXCEPT ![i] = s]
        /\ heap' = c.heap
        /\ running' = IF s.pc = "returned" THEN 0 ELSE i
        /\ UNCHANGED <<options, headers, strategies>>

\* the transport calls the callback before _oauth2.get returns
CallbackSync(i) ==
    /\ running = i
    /\ inv[i].pc = "inflight"
    /\ \E r \in Responses(inv[i].step) : \E n \in ThrowsAhead(inv[i]) :
          AfterCallback(i, r, n)

\* the transport calls the callback from the event loop
CallbackAsync(i) ==
    /\ running = 0
    /\ inv[i].pc = "pending"
    /\ \E r \in Responses(inv[i].step) : \E n \in ThrowsAhead(inv[i]) :
          AfterCallback(i, r, n)

Next ==
    \E i \in Invocations :
        \/ UserProfile(i)
        \/ GetReturns(i)
        \/ CallbackSync(i)
        \/ CallbackAsync(i)

Spec == Init /\ [][Next]_vars

\* the callers' done callbacks return normally
InitLive == InitWith(FALSE)

\* The transport answers every GET it was handed, and code that is running
\* keeps running; nothing obliges a caller to call userProfile.
Fairness ==
    \A i \in Invocations :
        /\ WF_vars(GetReturns(i) \/ CallbackSync(i))
        /\ WF_vars(CallbackAsync(i))

LiveSpec == InitLive /\ [][Next]_vars /\ Fairness

-----------------------------------------------------------------------------
(* Properties of userProfile *)

\* the profile object a call of done was handed
Profile(c) == heap[c.profile.id]

\* the properties of a completed profile
ProfileKeys ==
    AccountFields \cup {"provider", "_raw", "_json", "username", "email"}

\* a call of done with a complete profile and no error
DeliversProfile(c) ==
    /\ c.err = Null
    /\ c.profile # Undefined
    /\ DOMAIN Profile(c) = ProfileKeys

\* a call of done with an error and no profile
DeliversError(c) == Truthy(c.err) /\ c.profile = Undefined

\* the transport answered step k of invocation i with a body that parses
Parsed(i, k) ==
    /\ k <= Len(inv[i].responses)
    /\ ~Truthy(inv[i].responses[k].err)
    /\ JSONParse(inv[i].responses[k].body.v).ok

\* the value the body of step k of invocation i parses to
Json(i, k) == JSONParse(inv[i].responses[k].body.v).value

\* C1, safety: while done has returned normally every time, done has been
\* called at most once, a call hands over either a complete profile and no
\* error or an error and no profile, and an invocation that has nothing left
\* to run has called done.
ExactlyOneResult(i) ==
    inv[i].throws = 0 =>
        /\ Len(inv[i].calls) <= 1
        /\ inv[i].pc = "returned" => Len(inv[i].calls) = 1
        /\ \A n \in 1..Len(inv[i].calls) :
              LET c == inv[i].calls[n]
              IN  /\ DeliversProfile(c) \/ DeliversError(c)
                  /\ ~(DeliversProfile(c) /\ DeliversError(c))

\* C1: every invocation whose GETs are answered and whose done returns
\* normally calls done exactly once, with a complete profile and no error or
\* with an error and no profile; and every invocation that was made comes to
\* its end having called done.
C1_ExactlyOneResult ==
    /\ [](\A i \in Invocations : ExactlyOneResult(i))
    /\ \A i \in Invocations :
          (inv[i].pc # "idle") ~>
              (inv[i].pc = "returned" /\ Len(inv[i].calls) >= 1)

\* one invocation has handed over a profile, another an error, done never threw
C1_Witness ==
    /\ inv[1].pc = "returned" /\ inv[1].throws = 0
    /\ Len(inv[1].calls) = 1 /\ DeliversProfile(inv[1].calls[1])
    /\ inv[2].pc = "returned" /\ inv[2].throws = 0
    /\ Len(inv[2].calls) = 1 /\ DeliversError(inv[2].calls[1])

\* C2: the GETs of an invocation are those of steps 1, 2, 3 in this order,
\* each to the endpoint of its step and with the invocation's token, each at
\* most once; at most one is unanswered; and the GET of step k+1 exists only
\* if step k was answered without a transport error by a body that parses.
C2_SequentialGets ==
    \A i \in Invocations :
        LET issued == inv[i].issued
            answered == Len(inv[i].responses)
        IN  /\ Len(issued) <= 3
            /\ \A n \in 1..Len(issued) :
                  /\ issued[n].step = n
                  /\ issued[n].token = inv[i].token
                  /\ issued[n].url =
                        <<This._userProfileURL, This._userProfileUsername,
                          This._userProfileEmail>>[n]
            /\ answered <= Len(issued)
            /\ Len(issued) - answered <= 1
            /\ \A k \in 1..answered :
                  ~Parsed(i, k) => Len(issued) = k
            /\ \A n \in 2..Len(issued) : Parsed(i, n - 1)

\* an invocation has issued all three GETs, another stopped at a failed
\* username step
C2_Witness ==
    /\ Len(inv[1].issued) = 3 /\ Len(inv[1].responses) = 3
    /\ inv[2].pc = "returned"
    /\ Len(inv[2].issued) = 2 /\ ~Parsed(2, 2)

\* C3: a transport error at step k makes the first call of done one with an
\* InternalOAuthError that carries the label of step k and the transport's
\* error, and no profile; no call of done carries the label of another step.
C3_StageLabels ==
    \A i \in Invocations :
        \A k \in 1..Len(inv[i].responses) :
            LET r == inv[i].responses[k]
                label == << "failed to fetch user profile",
                            "failed to fetch username",
                            "failed to fetch email" >>[k]
            IN  Truthy(r.err) =>
                  /\ inv[i].calls # << >>
                  /\ inv[i].calls[1].err =
                        [t |-> "error", name |-> "InternalOAuthError",
                         message |-> label, cause |-> r.err]
                  /\ inv[i].calls[1].profile = Undefined
                  /\ \A n \in 1..Len(inv[i].calls) :
                        ( /\ inv[i].calls[n].err.t = "error"
                          /\ inv[i].calls[n].err.name = "InternalOAuthError" )
                            => inv[i].calls[n].err.message = label

\* the transport failed at the username step of one invocation and at the
\* email step of another
C3_Witness ==
    /\ Len(inv[1].responses) = 2 /\ Truthy(inv[1].responses[2].err)
    /\ Len(inv[2].responses) = 3 /\ Truthy(inv[2].responses[3].err)
    /\ inv[1].pc = "returned" /\ inv[2].pc = "returned"

\* the transport answered step k of invocation i with a body that is no JSON
Unparseable(i, k) ==
    /\ ~Truthy(inv[i].responses[k].err)
    /\ ~JSONParse(inv[i].responses[k].body.v).ok

\* C4: when the body of a step does not parse, no further GET is issued, no
\* call of done hands over a profile, and the invocation ends having called
\* done first with the parse failure (the SyntaxError of JSON.parse, which is
\* what the specification calls the MalformedResponseError).
C4_MalformedResponse ==
    \A i \in Invocations :
        \A k \in 1..Len(inv[i].responses) :
            Unparseable(i, k) =>
              /\ Len(inv[i].issued) = k
              /\ \A n \in 1..Len(inv[i].calls) :
                    inv[i].calls[n].profile = Undefined
              /\ inv[i].pc = "returned" =>
                    /\ inv[i].calls # << >>
                    /\ inv[i].calls[1].err =
                          [t |-> "error", name |-> "SyntaxError",
                           message |-> "Unexpected token in JSON: " \o
                                       inv[i].responses[k].body.v,
                           cause |-> Undefined]

\* the email body of one invocation and the account body of another did not
\* parse, and both have ended
C4_Witness ==
    /\ inv[1].pc = "returned" /\ Len(inv[1].responses) = 3 /\ Unparseable(1, 3)
    /\ inv[2].pc = "returned" /\ Len(inv[2].responses) = 1 /\ Unparseable(2, 1)

\* C5: a call of done that hands over a profile comes after all three GETs
\* were answered by bodies that parse, and the profile has what each of the
\* three contributed.
C5_NoPartialProfile ==
    \A i \in Invocations :
        \A n \in 1..Len(inv[i].calls) :
            LET c == inv[i].calls[n]
            IN  c.profile # Undefined =>
                  /\ Len(inv[i].responses) = 3
                  /\ \A k \in 1..3 : Parsed(i, k)
                  /\ c.err = Null
                  /\ DOMAIN Profile(c) = ProfileKeys
                  /\ Profile(c)["image"] = Prop(Prop(Json(i, 1), "account"), "image")
                  /\ Profile(c)["username"] = Prop(Json(i, 2), "username")
                  /\ Profile(c)["email"] = Prop(Json(i, 3), "email")

\* a profile was handed over whose email response had no email field
C5_Witness ==
    \E i \in Invocations :
        /\ inv[i].calls # << >>
        /\ inv[i].calls[1].profile # Undefined
        /\ inv[i].responses[3].body = Str(BodyEmptyObject)

\* the profile the three parsed responses of invocation i map to
ReferenceProfile(i) ==
    LET account == Json(i, 1).f["account"]
        field(k) == IF k \in DOMAIN account.f THEN account.f[k] ELSE Undefined
    IN  [ provider |-> Str("envato"),
          image |-> field("image"),
          firstname |-> field("firstname"),
          surname |-> field("surname"),
          available_earnings |-> field("available_earnings"),
          total_deposits |-> field("total_deposits"),
          balance |-> field("balance"),
          country |-> field("country"),
          username |-> Prop(Json(i, 2), "username"),
          email |-> Prop(Json(i, 3), "email"),
          _raw |-> inv[i].responses[1].body,
          _json |-> Json(i, 1) ]

\* C6: a profile that is handed over is the reference mapping of the three
\* responses, its _raw and _json those of the account response; for the
\* responses of the specification's example it is the example's profile.
C6_ProfileMapping ==
    \A i \in Invocations :
        \A n \in 1..Len(inv[i].calls) :
            LET c == inv[i].calls[n]
            IN  c.err = Null =>
                  /\ c.profile # Undefined
                  /\ Profile(c) = ReferenceProfile(i)
                  /\ ( /\ inv[i].responses[1].body = Str(BodyAccountA)
                       /\ inv[i].responses[2].body = Str(BodyUsernameU)
                       /\ inv[i].responses[3].body = Str(BodyEmailE) )
                     => /\ Profile(c)["provider"] = Str("envato")
                        /\ Profile(c)["image"] = Str("i")
                        /\ Profile(c)["firstname"] = Str("F")
                        /\ Profile(c)["surname"] = Str("S")
                        /\ Profile(c)["username"] = Str("u")
                        /\ Profile(c)["email"] = Str("e@x.com")
                        /\ Profile(c)["_raw"] = Str(BodyAccountA)

\* the example's three responses were handed over as a profile
C6_Witness ==
    \E i \in Invocations :
        /\ inv[i].pc = "returned"
        /\ Len(inv[i].calls) = 1 /\ inv[i].calls[1].err = Null
        /\ inv[i].responses[1].body = Str(BodyAccountA)
        /\ inv[i].responses[2].body = Str(BodyUsernameU)
        /\ inv[i].responses[3].body = Str(BodyEmailE)

\* what the first call of done of an invocation is handed when the
\* invocation runs alone and the transport answers with rs: the failure of
\* the first step that fails, or the profile of the three responses
RunAlone(rs) ==
    LET failed(k) ==
            \/ Truthy(rs[k].err)
            \/ ~JSONParse(rs[k].body.v).ok
            \/ ~CanRead(JSONParse(rs[k].body.v).value)
            \/ k = 1 /\ ~CanRead(Prop(JSONParse(rs[k].body.v).value, "account"))
        failure(k) ==
            IF Truthy(rs[k].err)
            THEN [t |-> "error", name |-> "InternalOAuthError",
                  message |-> << "failed to fetch user profile",
                                 "failed to fetch username",
                                 "failed to fetch email" >>[k],
                  cause |-> rs[k].err]
            ELSE IF ~JSONParse(rs[k].body.v).ok
            THEN JSONParse(rs[k].body.v).error
            ELSE [t |-> "error", name |-> "TypeError",
                  message |-> "Cannot read property of " \o
                              <<"account", "username", "email">>[k],
                  cause |-> Undefined]
        json(k) == JSONParse(rs[k].body.v).value
        account == json(1).f["account"]
        field(k) == IF k \in DOMAIN account.f THEN account.f[k] ELSE Undefined
    IN  IF \E k \in 1..Len(rs) : failed(k)
        THEN [err |-> failure(CHOOSE k \in 1..Len(rs) :
                                 failed(k) /\ \A j \in 1..(k - 1) : ~failed(j)),
              profile |-> Undefined]
        ELSE [err |-> Null,
              profile |->
                [ provider |-> Str("envato"),
                  image |-> field("image"),
                  firstname |-> field("firstname"),
                  surname |-> field("surname"),
                  available_earnings |-> field("available_earnings"),
                  total_deposits |-> field("total_deposits"),
                  balance |-> field("balance"),
                  country |-> field("country"),
                  username |-> Prop(json(2), "username"),
                  email |-> Prop(json(3), "email"),
                  _raw |-> rs[1].body,
                  _json |-> json(1) ]]

\* what a call of done was handed, the profile by its contents
Handed(c) ==
    [err |-> c.err,
     profile |-> IF c.profile = Undefined THEN Undefined ELSE Profile(c)]

\* C8: however the callbacks of the invocations interleave, the first call of
\* done of each invocation is handed what the invocation is handed when it
\* runs alone against the same responses; two invocations never build their
\* profiles in the same object; and two invocations with the same token and
\* the same responses are handed structurally equal results.
C8_Independent ==
    \A i \in Invocations :
        /\ inv[i].calls # << >> =>
              Handed(inv[i].calls[1]) = RunAlone(inv[i].responses)
        /\ \A j \in Invocations \ {i} :
              /\ inv[i].profile # Undefined => inv[i].profile # inv[j].profile
              /\ ( /\ inv[i].calls # << >> /\ inv[j].calls # << >>
                   /\ inv[i].token = inv[j].token
                   /\ inv[i].responses = inv[j].responses )
                 => Handed(inv[i].calls[1]) = Handed(inv[j].calls[1])

\* two invocations with the same token were handed equal profiles, the
\* account callback of the second having run before that of the first
C8_Witness ==
    /\ inv[1].pc = "returned" /\ inv[2].pc = "returned"
    /\ inv[1].token = inv[2].token
    /\ inv[1].profile = Ref(2) /\ inv[2].profile = Ref(1)
    /\ inv[1].calls[1].err = Null /\ inv[2].calls[1].err = Null
    /\ Handed(inv[1].calls[1]) = Handed(inv[2].calls[1])

\* C10: done is called at most once per invocation, also when done throws
\* or the transport calls back before get returns; in particular no call of
\* done follows the one that handed over the profile.
C10_DoneAtMostOnce ==
    \A i \in Invocations :
        /\ Len(inv[i].calls) <= 1
        /\ \A n \in 1..Len(inv[i].calls) :
              inv[i].calls[n].err = Null => n = Len(inv[i].calls)

-----------------------------------------------------------------------------
(* Properties of the constructor *)

\* the User-Agent of the header map strategy n was constructed with
UserAgentOf(n) == Get(headers[strategies[n].this.customHeaders.id], "User-Agent")

\* the options object construction n was handed, as a property map
GivenOptions(n) ==
    IF strategies[n].given.options = Undefined
    THEN EmptyObject
    ELSE strategies[n].given.options.f

\* the User-Agent of the header map construction n was handed, if any
GivenHeader(n) ==
    IF "customHeaders" \in DOMAIN GivenOptions(n)
    THEN Get(strategies[n].given.headers[GivenOptions(n)["customHeaders"].id],
             "User-Agent")
    ELSE Undefined

\* what strategy n resolved option k to
Resolved(n, k) ==
    CASE k = "authorizationURL" -> strategies[n].this.authorizationURL
      [] k = "tokenURL" -> strategies[n].this.tokenURL
      [] k = "userProfileURL" -> strategies[n].this._userProfileURL
      [] k = "userProfileUsername" -> strategies[n].this._userProfileUsername
      [] k = "userProfileEmail" -> strategies[n].this._userProfileEmail

\* the documented default of option k
DocumentedDefault(k) ==
    CASE k = "authorizationURL" -> Str("https://api.envato.com/authorization")
      [] k = "tokenURL" -> Str("https://api.envato.com/token")
      [] k = "userProfileURL" ->
           Str("https://api.envato.com/v1/market/private/user/account.json")
      [] k = "userProfileUsername" ->
           Str("https://api.envato.com/v1/market/private/user/username.json")
      [] k = "userProfileEmail" ->
           Str("https://api.envato.com/v1/market/private/user/email.json")

\* C7 as stated: every option that is supplied is kept, every other one gets
\* its default; the User-Agent is the one in customHeaders if present, else
\* the userAgent option if given, else 'passport-envato'; it is never empty.
C7_AsStated ==
    \A n \in 1..Len(strategies) :
        /\ \A k \in UrlOptions :
              Resolved(n, k) =
                  IF k \in DOMAIN GivenOptions(n)
                  THEN GivenOptions(n)[k] ELSE DocumentedDefault(k)
        /\ UserAgentOf(n) =
              IF GivenHeader(n) # Undefined THEN GivenHeader(n)
              ELSE IF "userAgent" \in DOMAIN GivenOptions(n)
                   THEN GivenOptions(n)["userAgent"]
                   ELSE Str("passport-envato")
        /\ UserAgentOf(n) \notin {Undefined, Str("")}

\* C7, amended: an option supplied as the empty string counts as not
\* supplied. Every option supplied with a non-empty value is kept, every other
\* one gets its default; the User-Agent is the non-empty one in customHeaders
\* if there is one, else the non-empty userAgent option if there is one, else
\* 'passport-envato'; it is never empty.
C7_Defaults ==
    \A n \in 1..Len(strategies) :
        LET nonEmpty(v) == v \notin {Undefined, Str("")}
        IN  /\ \A k \in UrlOptions :
                  Resolved(n, k) =
                      IF k \in DOMAIN GivenOptions(n) /\ nonEmpty(GivenOptions(n)[k])
                      THEN GivenOptions(n)[k] ELSE DocumentedDefault(k)
            /\ UserAgentOf(n) =
                  IF nonEmpty(GivenHeader(n)) THEN GivenHeader(n)
                  ELSE IF "userAgent" \in DOMAIN GivenOptions(n)
                          /\ nonEmpty(GivenOptions(n)["userAgent"])
                       THEN GivenOptions(n)["userAgent"]
                       ELSE Str("passport-envato")
            /\ nonEmpty(UserAgentOf(n))

\* a strategy was constructed from options with an empty tokenURL, a
\* userProfileURL of the caller's, no authorizationURL, and an empty
\* User-Agent header beside a userAgent option
C7_Witness ==
    \E n \in 1..Len(strategies) :
        /\ "authorizationURL" \notin DOMAIN GivenOptions(n)
        /\ Get(GivenOptions(n), "tokenURL") = Str("")
        /\ Get(GivenOptions(n), "userProfileURL") =
               Str("https://example.test/userProfileURL")
        /\ GivenHeader(n) = Str("")
        /\ Get(GivenOptions(n), "userAgent") = Str("myapp.com")
        /\ UserAgentOf(n) = Str("myapp.com")

\* C9: a construction leaves the options object and the header map it was
\* handed as they were, and the User-Agent a strategy ends up with is a
\* function of the caller's own header map and of the userAgent option at the
\* time of that construction.
C9_OptionsUntouched ==
    \A n \in 1..Len(strategies) :
        /\ strategies[n].left.options = strategies[n].given.options
        /\ \A r \in 1..Len(strategies[n].given.headers) :
              strategies[n].left.headers[r] = strategies[n].given.headers[r]
        /\ LET own == IF "customHeaders" \in DOMAIN GivenOptions(1)
                      THEN Get(strategies[1].given.headers[1], "User-Agent")
                      ELSE Undefined
           IN  UserAgentOf(n) =
                   Or(own, Or(Get(GivenOptions(n), "userAgent"),
                              Str("passport-envato")))

=============================================================================
